---- MODULE Spec2Model ----
(***************************************************************************)
(* Model of the temporal alignment utilities of icenet:                    *)
(*   icenet/plotting/utils.py   filter_ds_by_obs, get_seas_forecast_da     *)
(*                              (with its strip_overlapping_time callback) *)
(* Dates are proleptic Gregorian ordinals (datetime.toordinal), file names *)
(* are sequences of ASCII codes, a time axis is a sequence of ordinals.    *)
(***************************************************************************)
EXTENDS Integers, Sequences, FiniteSets, TLC

(***************************************************************************)
(* Bounds of the model                                                     *)
(***************************************************************************)
\* largest lead time (days) a forecast dataset carries
MaxLead == 3
\* days before / after the nominal window an observation can be dated
ObsMargin == 1
\* number of daily steps in a long historical forecast file
HistLen == 33
\* calendar years the model's dates fall in
Years == 2010 .. 2036

(***************************************************************************)
(* Calendar arithmetic of datetime / timedelta                             *)
(***************************************************************************)
IsLeap(y) == (y % 4 = 0) /\ ((y % 100 # 0) \/ (y % 400 = 0))

DaysInMonth(y, m) ==
    IF m = 2 THEN (IF IsLeap(y) THEN 29 ELSE 28)
    ELSE IF m \in {4, 6, 9, 11} THEN 30 ELSE 31

DaysBeforeYear(y) ==
    365 * (y - 1) + ((y - 1) \div 4) - ((y - 1) \div 100) + ((y - 1) \div 400)

RECURSIVE DaysBeforeMonth(_, _)
DaysBeforeMonth(y, m) ==
    IF m = 1 THEN 0 ELSE DaysBeforeMonth(y, m - 1) + DaysInMonth(y, m - 1)

ToOrdinal(y, m, d) == DaysBeforeYear(y) + DaysBeforeMonth(y, m) + d

FromOrdinal(n) ==
    LET y == CHOOSE yy \in Years :
                 DaysBeforeYear(yy) < n /\ n <= DaysBeforeYear(yy + 1)
        r == n - DaysBeforeYear(y)
        m == CHOOSE mm \in 1 .. 12 :
                 DaysBeforeMonth(y, mm) < r
                 /\ r <= DaysBeforeMonth(y, mm) + DaysInMonth(y, mm)
    IN  [year |-> y, month |-> m, day |-> r - DaysBeforeMonth(y, m)]

\* date.strftime("%D"): mm/dd/yy, the century is not printed
StrftimeD(n) ==
    LET c == FromOrdinal(n) IN <<c.month, c.day, c.year % 100>>

(***************************************************************************)
(* File names: sequences of ASCII codes                                    *)
(***************************************************************************)
RECURSIVE Digits(_, _)
\* the decimal digits of n, zero padded to width w, as ASCII codes
Digits(n, w) ==
    IF w = 0 THEN <<>> ELSE Append(Digits(n \div 10, w - 1), 48 + (n % 10))

IsDigit(c) == c \in 48 .. 57

RECURSIVE DigitsValue(_)
DigitsValue(s) ==
    IF s = <<>> THEN 0
    ELSE 10 * DigitsValue(SubSeq(s, 1, Len(s) - 1)) + (s[Len(s)] - 48)

DotNc == <<46, 110, 99>>
DotTxt == <<46, 116, 120, 116>>

\* "{}.nc".format(date.strftime("%Y%m%d"))
SeasFileName(n) ==
    LET c == FromOrdinal(n)
    IN  Digits(c.year, 4) \o Digits(c.month, 2) \o Digits(c.day, 2) \o DotNc

\* glob pattern "*.nc": any name ending in .nc that is not a dot file
GlobNc(name) ==
    /\ Len(name) >= 3
    /\ SubSeq(name, Len(name) - 2, Len(name)) = DotNc
    /\ name[1] # 46

\* mutation: the pattern without its ^ anchor, \d{8}\.nc$
ReMatchUnanchored(name) ==
    /\ Len(name) >= 11
    /\ \A i \in (Len(name) - 10) .. (Len(name) - 3) : IsDigit(name[i])
    /\ SubSeq(name, Len(name) - 2, Len(name)) = DotNc

\* re.search(r'^\d{8}\.nc$', os.path.basename(el))
ReMatch(name) ==
    /\ Len(name) = 11
    /\ \A i \in 1 .. 8 : IsDigit(name[i])
    /\ SubSeq(name, 9, 11) = DotNc

InvalidDate == 0

\* dt.datetime.strptime(os.path.basename(el)[0:8], "%Y%m%d"); InvalidDate
\* stands for the ValueError strptime raises
Strptime(name) ==
    LET s == SubSeq(name, 1, 8)
        y == DigitsValue(SubSeq(s, 1, 4))
        m == DigitsValue(SubSeq(s, 5, 6))
        d == DigitsValue(SubSeq(s, 7, 8))
    IN  IF /\ Len(name) >= 8
           /\ \A i \in 1 .. 8 : IsDigit(s[i])
           /\ y >= 1
           /\ m \in 1 .. 12
           /\ d >= 1
           /\ d <= DaysInMonth(y, m)
        THEN ToOrdinal(y, m, d)
        ELSE InvalidDate

\* lexicographic order of two strings (Python str comparison)
RECURSIVE StrLess(_, _)
StrLess(a, b) ==
    IF b = <<>> THEN FALSE
    ELSE IF a = <<>> THEN TRUE
    ELSE IF a[1] # b[1] THEN a[1] < b[1]
    ELSE StrLess(Tail(a), Tail(b))

(***************************************************************************)
(* Sequences                                                               *)
(***************************************************************************)
Min(S) == CHOOSE x \in S : \A y \in S : x <= y
Max(S) == CHOOSE x \in S : \A y \in S : y <= x

RECURSIVE SortedDates(_)
\* a set of dates as a strictly increasing time axis
SortedDates(S) ==
    IF S = {} THEN <<>> ELSE <<Min(S)>> \o SortedDates(S \ {Min(S)})

Range(s) == {s[i] : i \in 1 .. Len(s)}


RECURSIVE SortByPathReversed(_)
\* mutation: sorted(..., reverse=True)
SortByPathReversed(S) ==
    IF S = {} THEN <<>>
    ELSE LET first == CHOOSE a \in S : \A b \in S \ {a} : StrLess(b, a)
         IN  <<[path |-> first, date |-> Strptime(first)]>>
             \o SortByPathReversed(S \ {first})

RECURSIVE SortByPath(_)
\* sorted({path: date}.items()): the paths are distinct, so the tuples are
\* ordered by path; dict() keeps that order
SortByPath(S) ==
    IF S = {} THEN <<>>
    ELSE LET first == CHOOSE a \in S : \A b \in S \ {a} : StrLess(a, b)
         IN  <<[path |-> first, date |-> Strptime(first)]>>
             \o SortByPath(S \ {first})

\* list.index(x), 1-based; 0 stands for the ValueError of a missing element
Index(s, x) ==
    IF \E i \in 1 .. Len(s) : s[i] = x
    THEN CHOOSE i \in 1 .. Len(s) : s[i] = x /\ \A j \in 1 .. (i - 1) : s[j] # x
    ELSE 0

(***************************************************************************)
(* State                                                                   *)
(***************************************************************************)
VARIABLES
    call,             \* the function being run
    pc,               \* its position: idle, preprocess, debias, return, raise
    log,              \* records written to logging during the call
    error,            \* the exception the call raised
    forecast_date,    \* filter_ds_by_obs: forecast_date
    leadtime,         \* filter_ds_by_obs: ds.leadtime
    obs_time,         \* filter_ds_by_obs: obs_da.time
    broadcast,        \* calls made to broadcast_forecast (start_date, end_date)
    siconca,          \* <source_path>/<hemisphere>/siconca: name -> time steps
    seas_file,        \* get_seas_forecast_da: name of the target file
    bias_correct,     \* get_seas_forecast_da: bias_correct
    seas_hist_files,  \* get_seas_forecast_da: ordered mapping path -> date
    preprocessed,     \* results of strip_overlapping_time, in call order
    hist_time,        \* time axis of hist_da
    obs_source,       \* <obs_source>/<hemisphere>/siconca: years with a file
    obs_request,      \* get_obs_da: (start_date, end_date)
    obs_dfs,          \* get_obs_da: the yearly files found, by year
    obs_runs,         \* time axis of the returned ice_conc, as runs of days
    result            \* the series get_seas_forecast_da returns

obsVars == <<obs_source, obs_request, obs_dfs, obs_runs, result>>

VARIABLES
    mars_args,        \* _single_download: var_names, pressures, req_dates
                      \* and self.delete
    utc_today,        \* datetime.datetime.utcnow().date()
    daily_files,      \* daily files on disk before the call: (var, date)
    regridded_files,  \* regridded files on disk before the call: (var, date)
    targets,          \* request target files on disk before the call
    download_dates,   \* _single_download: download_dates
    requests,         \* MARS requests executed, in order
    downloaded_files, \* _single_download: downloaded_files, with their days
    files_downloaded, \* self._files_downloaded
    written,          \* daily files written by the call
    deleted           \* target files removed by the call

marsVars == <<mars_args, utc_today, daily_files, regridded_files, targets,
              download_dates, requests, downloaded_files, files_downloaded,
              written, deleted>>

VARIABLES
    configuration_paths, \* MergedIceNetDataSet._configuration_paths
    load_paths,          \* _load_configurations: what "for path in paths"
                         \* iterates over
    path_idx,            \* _load_configurations: position of the loop
    config,              \* MergedIceNetDataSet._config
    returned             \* what get_data_loader returned

mergeVars == <<configuration_paths, load_paths, path_idx, config, returned>>

vars == <<call, pc, log, error, forecast_date, leadtime, obs_time, broadcast,
          siconca, seas_file, bias_correct, seas_hist_files, preprocessed,
          hist_time, obsVars, marsVars, mergeVars>>

NoError == [type |-> "none", event |-> "", args |-> <<>>]
NoDate == 0
NoSeries == [time |-> <<>>, grid |-> <<>>, values |-> "none"]

Init ==
    /\ call = "none"
    /\ pc = "idle"
    /\ log = <<>>
    /\ error = NoError
    /\ forecast_date = NoDate
    /\ leadtime = {}
    /\ obs_time = <<>>
    /\ broadcast = <<>>
    /\ siconca = <<>>
    /\ seas_file = <<>>
    /\ bias_correct = FALSE
    /\ seas_hist_files = <<>>
    /\ preprocessed = <<>>
    /\ hist_time = <<>>
    /\ obs_source = {}
    /\ obs_request = <<NoDate, NoDate>>
    /\ obs_dfs = <<>>
    /\ obs_runs = <<>>
    /\ result = NoSeries
    /\ mars_args = [var_names |-> <<>>, pressures |-> <<>>,
                    req_dates |-> <<>>, delete |-> FALSE]
    /\ utc_today = NoDate
    /\ daily_files = {}
    /\ regridded_files = {}
    /\ targets = {}
    /\ download_dates = <<>>
    /\ requests = <<>>
    /\ downloaded_files = <<>>
    /\ files_downloaded = <<>>
    /\ written = {}
    /\ deleted = {}
    /\ configuration_paths = <<>>
    /\ load_paths = <<>>
    /\ path_idx = 0
    /\ config = [keys |-> {}]
    /\ returned = [keys |-> {}]

\* no call has been made yet: a behaviour is one call on fresh arguments
Callable == pc = "idle"

(***************************************************************************)
(* filter_ds_by_obs                                                        *)
(***************************************************************************)
ForecastDates == {ToOrdinal(2022, 4, 1), ToOrdinal(2021, 12, 30)}
LeadTimes == SUBSET (0 .. MaxLead)
ObsDates(fd) == (fd - ObsMargin) .. (fd + MaxLead + ObsMargin)

\* mutation: the window starts at the forecast date whatever the lead times
NominalWindowFromIssuance(fd, lt) == <<fd, fd + Max(lt)>>

\* (forecast_date + min leadtime, forecast_date + max leadtime)
NominalWindow(fd, lt) == <<fd + Min(lt), fd + Max(lt)>>

\* mutation: an observation series as long as the lead time axis counts as
\* a shortfall
ShortfallInclusive(obs, lt) == Len(obs) <= Cardinality(lt)

\* len(obs_da.time) < len(ds.leadtime)
Shortfall(obs, lt) == Len(obs) < Cardinality(lt)

\* len(obs_da.time) < 1
NoObs(obs) == Len(obs) < 1

\* mutation: both ends of the window taken from the first observation
ObsWindowFirstOnly(obs) == <<obs[1], obs[1]>>

\* (obs_da.time.to_series()[0], obs_da.time.to_series()[-1])
ObsWindow(obs) == <<obs[1], obs[Len(obs)]>>

NoObsError(window) ==
    [type |-> "RuntimeError", event |-> "No observational data available",
     args |-> <<StrftimeD(window[1]), StrftimeD(window[2])>>]

ShortfallWarning(obs, window) ==
    [level |-> "warning",
     event |-> "Observational data not available for full range",
     args |-> <<StrftimeD(obs[1]), StrftimeD(obs[Len(obs)]),
                StrftimeD(window[1]), StrftimeD(window[2])>>]

FilterDsByObs ==
    /\ Callable
    /\ \E fd \in ForecastDates, lt \in LeadTimes :
       \E od \in SUBSET ObsDates(fd) :
          LET obs == SortedDates(od) IN
          /\ call' = "filter_ds_by_obs"
          /\ forecast_date' = fd
          /\ leadtime' = lt
          /\ obs_time' = obs
          /\ IF lt = {}
             THEN \* min() of an empty lead time axis
                  /\ error' = [type |-> "ValueError",
                               event |-> "zero-size array", args |-> <<>>]
                  /\ log' = <<>>
                  /\ broadcast' = <<>>
                  /\ pc' = "raise"
             ELSE LET nominal == NominalWindow(fd, lt) IN
                  IF Shortfall(obs, lt)
                  THEN IF NoObs(obs)
                       THEN /\ error' = NoObsError(nominal)
                            /\ log' = <<>>
                            /\ broadcast' = <<>>
                            /\ pc' = "raise"
                       ELSE /\ log' = <<ShortfallWarning(obs, nominal)>>
                            /\ broadcast' = <<ObsWindow(obs)>>
                            /\ error' = NoError
                            /\ pc' = "return"
                  ELSE /\ log' = <<>>
                       /\ broadcast' = <<nominal>>
                       /\ error' = NoError
                       /\ pc' = "return"
    /\ siconca' = <<>>
    /\ seas_file' = <<>>
    /\ bias_correct' = FALSE
    /\ seas_hist_files' = <<>>
    /\ preprocessed' = <<>>
    /\ hist_time' = <<>>
    /\ UNCHANGED obsVars
    /\ UNCHANGED marsVars
    /\ UNCHANGED mergeVars

(***************************************************************************)
(* get_obs_da                                                              *)
(***************************************************************************)
\* pd.Series(pd.date_range(start_date, end_date)).dt.year.unique()
ObsYears(start, end) ==
    IF start > end THEN <<>>
    ELSE LET first == FromOrdinal(start).year
             last == FromOrdinal(end).year
         IN  [i \in 1 .. (last - first + 1) |-> first + i - 1]

\* the glob of "<yr>.nc" for each year in turn: the files that exist
ObsDfs(source, years) == SelectSeq(years, LAMBDA yr : yr \in source)

\* len(obs_dfs) < len(obs_years)
MissingObs(dfs, years) == Len(dfs) < Len(years)

\* a yearly archive holds every day of its year
YearRun(yr) == <<ToOrdinal(yr, 1, 1), ToOrdinal(yr, 12, 31)>>

RECURSIVE SelRuns(_, _, _)
\* obs_ds.sel(time=slice(start_date, end_date)) on runs of days
SelRuns(runs, start, end) ==
    IF runs = <<>> THEN <<>>
    ELSE LET lo == IF runs[1][1] < start THEN start ELSE runs[1][1]
             hi == IF runs[1][2] > end THEN end ELSE runs[1][2]
         IN  (IF lo <= hi THEN <<<<lo, hi>>>> ELSE <<>>)
             \o SelRuns(Tail(runs), start, end)

\* get_obs_da(hemisphere, start_date, end_date): what it logs, raises and
\* returns; xr.open_mfdataset of an empty list is an OSError
GetObsDaCall(source, start, end) ==
    LET years == ObsYears(start, end)
        dfs == ObsDfs(source, years)
        warn == IF MissingObs(dfs, years)
                THEN <<[level |-> "warning",
                        event |-> "Cannot find all obs source files",
                        args |-> <<>>]>>
                ELSE <<>>
        info == <<[level |-> "info", event |-> "Got files", args |-> <<>>]>>
    IN  [dfs |-> dfs,
         log |-> warn \o info,
         error |-> IF dfs = <<>>
                   THEN [type |-> "OSError", event |-> "no files to open",
                         args |-> <<>>]
                   ELSE NoError,
         runs |-> IF dfs = <<>> THEN <<>>
                  ELSE SelRuns([i \in DOMAIN dfs |-> YearRun(dfs[i])],
                               start, end)]

ObsStarts == {ToOrdinal(2021, 12, 30), ToOrdinal(2022, 4, 1)}
ObsEnds == {ToOrdinal(2021, 12, 31), ToOrdinal(2022, 4, 15),
            ToOrdinal(2023, 1, 2)}
ObsFileYears == 2021 .. 2023

GetObsDa ==
    /\ Callable
    /\ \E start \in ObsStarts, end \in ObsEnds, source \in SUBSET ObsFileYears :
          LET r == GetObsDaCall(source, start, end) IN
          /\ call' = "get_obs_da"
          /\ obs_source' = source
          /\ obs_request' = <<start, end>>
          /\ obs_dfs' = r.dfs
          /\ obs_runs' = r.runs
          /\ log' = r.log
          /\ error' = r.error
          /\ pc' = IF r.error = NoError THEN "return" ELSE "raise"
    /\ UNCHANGED <<forecast_date, leadtime, obs_time, broadcast, siconca,
                   seas_file, bias_correct, seas_hist_files, preprocessed,
                   hist_time, result>>
    /\ UNCHANGED marsVars
    /\ UNCHANGED mergeVars

(***************************************************************************)
(* get_seas_forecast_da: the historical forecast corpus                    *)
(***************************************************************************)
TargetDates == {ToOrdinal(2022, 4, 1), ToOrdinal(2024, 2, 29)}

\* names a siconca directory can hold
Universe ==
    { Digits(20220301, 8) \o DotNc,
      Digits(20220401, 8) \o DotNc,
      Digits(20220501, 8) \o DotNc,
      Digits(20240229, 8) \o DotNc,
      Digits(20230229, 8) \o DotNc,      \* eight digits, not a date
      Digits(2022, 4) \o DotNc,          \* a yearly archive
      Digits(202204010, 9) \o DotNc,     \* nine digits
      Digits(20220401, 8) \o DotTxt }    \* not a NetCDF file

FileLens == {2, HistLen}

\* the yearly observation archives on disk: none, every year, old years only
ObsArchives == {{}, 2012 .. 2034, 2012 .. 2015}

\* mutation: ten calendar years of 365.25 days
ObsRangeLeap(date) == <<date - 3652, date + 3652>>

\* (date - timedelta(days=10 * 365), date + timedelta(days=10 * 365))
ObsRange(date) == <<date - 10 * 365, date + 10 * 365>>

\* the coordinates yc, xc of the grid
GridShape == <<432, 432>>

\* the files of glob(".../siconca/*.nc") kept by the comprehension's condition
HistCandidates(files, target) ==
    {el \in files : GlobNc(el) /\ ReMatch(el) /\ el # target}

\* a forecast file holds daily steps from its issuance date on
FileTime(name, n) == [i \in 1 .. n |-> Strptime(name) + i - 1]

GetSeasForecastDa ==
    /\ Callable
    /\ \E date \in TargetDates, bc \in BOOLEAN, files \in SUBSET Universe :
       \E lens \in [{f \in files : Strptime(f) # InvalidDate /\ ReMatch(f)}
                      -> FileLens],
          source \in IF bc /\ SeasFileName(date) \in files
                     THEN ObsArchives ELSE {{}} :
          LET target == SeasFileName(date)
              cands == HistCandidates(files, target)
              range == ObsRange(date)
              obs == GetObsDaCall(source, range[1], range[2])
          IN
          /\ obs_source' = source
          /\ call' = "get_seas_forecast_da"
          /\ siconca' = [f \in files |->
                           IF f \in DOMAIN lens THEN lens[f] ELSE 0]
          /\ seas_file' = target
          /\ bias_correct' = bc
          /\ preprocessed' = <<>>
          /\ hist_time' = <<>>
          /\ IF target \notin files
             THEN \* xr.open_dataset(seas_file)
                  /\ error' = [type |-> "FileNotFoundError",
                               event |-> "seas_file", args |-> <<target>>]
                  /\ seas_hist_files' = <<>>
                  /\ log' = <<>>
                  /\ obs_request' = <<NoDate, NoDate>>
                  /\ obs_dfs' = <<>>
                  /\ obs_runs' = <<>>
                  /\ result' = NoSeries
                  /\ pc' = "raise"
             ELSE IF ~bc
             THEN /\ error' = NoError
                  /\ seas_hist_files' = <<>>
                  /\ log' = <<>>
                  /\ obs_request' = <<NoDate, NoDate>>
                  /\ obs_dfs' = <<>>
                  /\ obs_runs' = <<>>
                  /\ result' = [time |-> FileTime(target, lens[target]),
                                grid |-> GridShape, values |-> "raw"]
                  /\ pc' = "return"
             ELSE /\ log' = obs.log
                  /\ obs_request' = range
                  /\ obs_dfs' = obs.dfs
                  /\ obs_runs' = obs.runs
                  /\ result' = NoSeries
                  /\ IF obs.error # NoError
                     THEN \* get_obs_da raised
                          /\ error' = obs.error
                          /\ seas_hist_files' = <<>>
                          /\ pc' = "raise"
                     ELSE IF \E el \in cands : Strptime(el) = InvalidDate
                     THEN \* strptime on a name that is not a calendar date
                          /\ error' = [type |-> "ValueError",
                                       event |-> "strptime", args |-> <<>>]
                          /\ seas_hist_files' = <<>>
                          /\ pc' = "raise"
                     ELSE /\ error' = NoError
                          /\ seas_hist_files' = SortByPath(cands)
                          /\ pc' = "preprocess"
    /\ forecast_date' = NoDate
    /\ leadtime' = {}
    /\ obs_time' = <<>>
    /\ broadcast' = <<>>
    /\ UNCHANGED marsVars
    /\ UNCHANGED mergeVars


\* the result of preprocess for a dataset the callback rejected
NoneDs == [none |-> TRUE, source |-> <<>>, stripped |-> FALSE,
           max_date |-> NoDate, time |-> <<>>]

\* another spelling of a path, which is not a key of seas_hist_files
OtherSpelling(path) == <<46, 47>> \o path

Keys(files) == [i \in 1 .. Len(files) |-> files[i].path]

\* mutation: the day is not taken off the next issuance date
MaxDateNextIssuance(files, idx) == files[idx + 1].date

\* mutation: the bound is taken from the last entry instead of the next
MaxDateOfLast(files, idx) == files[Len(files)].date - 1

\* seas_hist_files[list(seas_hist_files.keys())[idx + 1]] - timedelta(days=1)
MaxDate(files, idx) == files[idx + 1].date - 1

\* mutation: the slice keeps the whole time axis
SelAll(time, max_date) == time

\* ds.sel(time=slice(None, max_date)): label slice, inclusive of max_date
Sel(time, max_date) == SelectSeq(time, LAMBDA t : t <= max_date)

\* strip_overlapping_time(ds) for a dataset read from data_file
StripResult(files, data_file, time) ==
    LET idx == Index(Keys(files), data_file) IN
    IF idx = 0
    THEN NoneDs
    ELSE IF idx < Len(files)
    THEN [none |-> FALSE, source |-> data_file, stripped |-> TRUE,
          max_date |-> MaxDate(files, idx),
          time |-> Sel(time, MaxDate(files, idx))]
    ELSE [none |-> FALSE, source |-> data_file, stripped |-> FALSE,
          max_date |-> NoDate, time |-> time]

StripLog(files, data_file) ==
    LET idx == Index(Keys(files), data_file) IN
    IF idx = 0
    THEN [level |-> "exception", event |-> "not in", args |-> <<data_file>>]
    ELSE IF idx < Len(files)
    THEN [level |-> "debug", event |-> "Stripping", args |-> <<data_file>>]
    ELSE [level |-> "debug", event |-> "Not stripping",
          args |-> <<data_file>>]

\* open_mfdataset opens the keys of seas_hist_files in order and hands each
\* dataset to the preprocess callback
StripOverlappingTime ==
    /\ pc = "preprocess"
    /\ Len(preprocessed) < Len(seas_hist_files)
    /\ LET path == seas_hist_files[Len(preprocessed) + 1].path IN
       \E data_file \in {path, OtherSpelling(path)} :
          /\ preprocessed' =
                 Append(preprocessed,
                        StripResult(seas_hist_files, data_file,
                                    FileTime(path, siconca[path])))
          /\ log' = Append(log, StripLog(seas_hist_files, data_file))
    /\ UNCHANGED <<call, pc, error, forecast_date, leadtime, obs_time,
                   broadcast, siconca, seas_file, bias_correct,
                   seas_hist_files, hist_time, obsVars, marsVars, mergeVars>>

FirstTime(ds) == IF ds.time = <<>> THEN NoDate ELSE ds.time[1]

RECURSIVE ConcatByTime(_, _)
\* combine_by_coords: the datasets in the order of their first time value,
\* concatenated along time
ConcatByTime(dss, todo) ==
    IF todo = {} THEN <<>>
    ELSE LET i == CHOOSE a \in todo :
                      \A b \in todo :
                          \/ FirstTime(dss[a]) < FirstTime(dss[b])
                          \/ FirstTime(dss[a]) = FirstTime(dss[b]) /\ a <= b
         IN  dss[i].time \o ConcatByTime(dss, todo \ {i})

IsMonotonic(time) == \A i \in 1 .. (Len(time) - 1) : time[i] <= time[i + 1]

\* xr.open_mfdataset(seas_hist_files, preprocess=...) once every file has
\* been preprocessed: no paths is an OSError, a None among the datasets is a
\* TypeError of the combine step, a non-monotonic time index a ValueError
OpenMfdataset ==
    /\ pc = "preprocess"
    /\ Len(preprocessed) = Len(seas_hist_files)
    /\ LET combined == ConcatByTime(preprocessed, DOMAIN preprocessed) IN
       IF seas_hist_files = <<>>
       THEN /\ error' = [type |-> "OSError", event |-> "no files to open",
                         args |-> <<>>]
            /\ hist_time' = <<>>
            /\ pc' = "raise"
       ELSE IF \E i \in DOMAIN preprocessed : preprocessed[i].none
       THEN /\ error' = [type |-> "TypeError",
                         event |-> "NoneType object is not iterable",
                         args |-> <<>>]
            /\ hist_time' = <<>>
            /\ pc' = "raise"
       ELSE IF ~IsMonotonic(combined)
       THEN /\ error' = [type |-> "ValueError",
                         event |-> "monotonic global indexes",
                         args |-> <<>>]
            /\ hist_time' = <<>>
            /\ pc' = "raise"
       ELSE /\ error' = NoError
            /\ hist_time' = combined
            /\ pc' = "debias"
    /\ UNCHANGED <<call, log, forecast_date, leadtime, obs_time, broadcast,
                   siconca, seas_file, bias_correct, seas_hist_files,
                   preprocessed, obsVars, marsVars, mergeVars>>

\* mutation: a new array is built from the debiased values, without the
\* coordinates of seas_da
AssignValuesNewArray(da, values) ==
    [time |-> <<>>, grid |-> da.grid, values |-> values]

\* seas_da.values = seas_array: the data is replaced, the coordinates stay
AssignValues(da, values) == [da EXCEPT !.values = values]

DebiasLog(event) == [level |-> "info", event |-> event, args |-> <<>>]

\* LinearScaling(...).apply(obs, hist, seas), seas_da.values = seas_array
\* and the return of seas_da: the offset is fitted on the values of the two
\* series, their dates are not compared
ReturnSeasDa ==
    /\ pc = "debias"
    /\ result' = AssignValues(
                     [time |-> FileTime(seas_file, siconca[seas_file]),
                      grid |-> GridShape, values |-> "raw"],
                     "debiased")
    /\ log' = log \o <<DebiasLog("Debiaser input ranges"),
                         DebiasLog("Debiaser output range")>>
    /\ pc' = "return"
    /\ UNCHANGED <<call, error, forecast_date, leadtime, obs_time,
                   broadcast, siconca, seas_file, bias_correct,
                   seas_hist_files, preprocessed, hist_time,
                   obs_source, obs_request, obs_dfs, obs_runs, marsVars,
                   mergeVars>>

utilsVars == <<forecast_date, leadtime, obs_time, broadcast, siconca,
               seas_file, bias_correct, seas_hist_files, preprocessed,
               hist_time, obsVars>>

(***************************************************************************)
(* HRESDownloader._single_download                                         *)
(***************************************************************************)
\* the dates of one monthly batch, the last of them the latest
BatchDates == <<ToOrdinal(2022, 4, 10), ToOrdinal(2022, 4, 11)>>

ReqDates == {<<BatchDates[2]>>, <<BatchDates[1], BatchDates[2]>>,
             <<BatchDates[2], BatchDates[1], BatchDates[2]>>}

\* (var_names, pressures) as download() passes them: surface variables
\* without pressures, pressure level variables with "250/500"
VarRequests == {[var_names |-> <<>>, pressures |-> <<>>],
                [var_names |-> <<"tas">>, pressures |-> <<>>],
                [var_names |-> <<"ta">>, pressures |-> <<250, 500>>]}

UtcDays == {BatchDates[2] + 1, BatchDates[2] + 2}

\* product(var_names, pressures.split('/') if pressures else [None]) as
\* (var_name, pressure) pairs, pressure 0 standing for None
VarKeys(var_names, pressures) ==
    LET ps == IF pressures = <<>> THEN <<0>> ELSE pressures
    IN  [k \in 1 .. (Len(var_names) * Len(ps)) |->
            <<var_names[((k - 1) \div Len(ps)) + 1],
              ps[((k - 1) % Len(ps)) + 1]>>]

\* the (var, destination_date) pairs in the order of the two nested loops
LoopPairs(keys, dates) ==
    [k \in 1 .. (Len(keys) * Len(dates)) |->
        [var |-> keys[((k - 1) \div Len(dates)) + 1],
         date |-> dates[((k - 1) % Len(dates)) + 1]]]

\* mutation: a date is wanted as soon as one of its two files is missing
MissingEither(daily, regridded, p) ==
    <<p.var, p.date>> \notin daily \/ <<p.var, p.date>> \notin regridded

\* not os.path.exists(daily_path) and not os.path.exists(regridded_name)
Missing(daily, regridded, p) ==
    <<p.var, p.date>> \notin daily /\ <<p.var, p.date>> \notin regridded

RECURSIVE AppendedDates(_, _, _, _)
\* download_dates after the loops: a date is appended if it is missing for
\* the pair and not yet in the list
AppendedDates(pairs, daily, regridded, acc) ==
    IF pairs = <<>> THEN acc
    ELSE LET p == pairs[1]
             add == Missing(daily, regridded, p) /\ p.date \notin Range(acc)
         IN  AppendedDates(Tail(pairs), daily, regridded,
                           IF add THEN Append(acc, p.date) ELSE acc)

RECURSIVE AppendedFiles(_, _, _, _)
\* self._files_downloaded after the loops: the daily file of every pair
\* that has a daily file and no regridded file
AppendedFiles(pairs, daily, regridded, acc) ==
    IF pairs = <<>> THEN acc
    ELSE LET p == pairs[1]
             add == /\ ~Missing(daily, regridded, p)
                    /\ <<p.var, p.date>> \notin regridded
         IN  AppendedFiles(Tail(pairs), daily, regridded,
                           IF add THEN Append(acc, <<p.var, p.date>>)
                           ELSE acc)

\* sorted(list(set(download_dates)))
SortedSet(dates) == SortedDates(Range(dates))

\* date.strftime("%Y%m%d")
StrftimeYmd(n) ==
    LET c == FromOrdinal(n)
    IN  Digits(c.year, 4) \o Digits(c.month, 2) \o Digits(c.day, 2)

\* the date field of a MARS request: the dates joined by "/"
RequestDates(dates) == [i \in DOMAIN dates |-> StrftimeYmd(dates[i])]

\* lines 106-141: the dates to download; with none the call returns
SingleDownload ==
    /\ Callable
    /\ \E vr \in VarRequests, rd \in ReqDates, today \in UtcDays,
          del \in BOOLEAN, tg \in SUBSET {"request", "partial"} :
       LET keys == VarKeys(vr.var_names, vr.pressures)
           files == {<<keys[k], BatchDates[i]>> :
                        k \in DOMAIN keys, i \in DOMAIN BatchDates}
       IN
       \E status \in [files -> {"none", "daily", "regridded"}] :
          LET daily == {f \in files : status[f] = "daily"}
              regridded == {f \in files : status[f] = "regridded"}
              pairs == LoopPairs(keys, rd)
              dates == SortedSet(AppendedDates(pairs, daily, regridded, <<>>))
          IN
          /\ call' = "_single_download"
          /\ mars_args' = [var_names |-> vr.var_names,
                           pressures |-> vr.pressures,
                           req_dates |-> rd, delete |-> del]
          /\ utc_today' = today
          /\ daily_files' = daily
          /\ regridded_files' = regridded
          /\ targets' = tg
          /\ files_downloaded' = AppendedFiles(pairs, daily, regridded, <<>>)
          /\ download_dates' = dates
          /\ IF dates = <<>>
             THEN /\ log' = <<[level |-> "info",
                               event |-> "We have all the files we need",
                               args |-> <<>>]>>
                  /\ pc' = "return"
             ELSE /\ log' = <<>>
                  /\ pc' = "partial"
    /\ UNCHANGED <<error, requests, downloaded_files, written, deleted>>
    /\ UNCHANGED utilsVars
    /\ UNCHANGED mergeVars

\* download_dates[-1] - utcnow().date() == timedelta(days=-1)
LatestIsYesterday(dates, today) == dates[Len(dates)] - today = -1

\* mutation: the partial date stays in the list after its download
AfterPartialKeep(dates) == dates

\* download_dates.pop()
AfterPartial(dates) == SubSeq(dates, 1, Len(dates) - 1)

\* lines 145-178: the request for the part of yesterday that is available
PartialRequest ==
    /\ pc = "partial"
    /\ IF LatestIsYesterday(download_dates, utc_today)
          /\ "partial" \notin targets
       THEN \E ok \in BOOLEAN :
              /\ requests' =
                     Append(requests,
                            [target |-> "partial",
                             date |-> <<StrftimeYmd(
                                 download_dates[Len(download_dates)])>>])
              /\ IF ok
                 THEN /\ downloaded_files' =
                            Append(downloaded_files,
                                   [target |-> "partial",
                                    days |-> {download_dates[
                                                 Len(download_dates)]}])
                      /\ download_dates' = AfterPartial(download_dates)
                      /\ log' = Append(log,
                                       [level |-> "warning",
                                        event |-> "Removed partial date",
                                        args |-> <<>>])
                 ELSE \* ecmwfapi.api.APIException
                      /\ log' = Append(log,
                                       [level |-> "exception",
                                        event |-> "Could not complete partial ECMWF request",
                                        args |-> <<>>])
                      /\ UNCHANGED <<downloaded_files, download_dates>>
       ELSE UNCHANGED <<requests, downloaded_files, download_dates, log>>
    /\ pc' = "full"
    /\ UNCHANGED <<call, error, mars_args, utc_today, daily_files,
                   regridded_files, targets, files_downloaded, written,
                   deleted>>
    /\ UNCHANGED utilsVars
    /\ UNCHANGED mergeVars

\* lines 180-205: the request for the whole days that remain
FullRequest ==
    /\ pc = "full"
    /\ IF Len(download_dates) > 0 /\ "request" \notin targets
       THEN \E ok \in BOOLEAN :
              /\ requests' = Append(requests,
                                    [target |-> "request",
                                     date |-> RequestDates(download_dates)])
              /\ IF ok
                 THEN /\ downloaded_files' =
                            Append(downloaded_files,
                                   [target |-> "request",
                                    days |-> Range(download_dates)])
                      /\ log' = log
                 ELSE /\ log' = Append(log,
                                       [level |-> "exception",
                                        event |-> "Could not complete ECMWF request",
                                        args |-> <<>>])
                      /\ UNCHANGED downloaded_files
       ELSE UNCHANGED <<requests, downloaded_files, log>>
    /\ pc' = "save"
    /\ UNCHANGED <<call, error, mars_args, utc_today, daily_files,
                   regridded_files, targets, download_dates,
                   files_downloaded, written, deleted>>
    /\ UNCHANGED utilsVars
    /\ UNCHANGED mergeVars

RECURSIVE AppendNew(_, _)
\* append each element of items that is not yet in acc
AppendNew(acc, items) ==
    IF items = <<>> THEN acc
    ELSE AppendNew(IF items[1] \in Range(acc) THEN acc
                   ELSE Append(acc, items[1]), Tail(items))

\* lines 207-248: the downloaded files are opened (none is an OSError), a
\* daily file is written per day and variable, the targets are removed
SaveDaily ==
    /\ pc = "save"
    /\ IF downloaded_files = <<>>
       THEN /\ error' = [type |-> "OSError", event |-> "no files to open",
                         args |-> <<>>]
            /\ pc' = "raise"
            /\ UNCHANGED <<files_downloaded, written, deleted>>
       ELSE LET days == SortedDates(UNION {downloaded_files[i].days :
                                              i \in DOMAIN downloaded_files})
                keys == VarKeys(mars_args.var_names, mars_args.pressures)
                paths == [k \in 1 .. (Len(days) * Len(keys)) |->
                             <<keys[((k - 1) % Len(keys)) + 1],
                               days[((k - 1) \div Len(keys)) + 1]>>]
            IN  /\ written' = Range(paths)
                /\ files_downloaded' = AppendNew(files_downloaded, paths)
                /\ deleted' =
                      IF mars_args.delete
                      THEN targets \cup {downloaded_files[i].target :
                                             i \in DOMAIN downloaded_files}
                      ELSE {}
                /\ error' = NoError
                /\ pc' = "return"
    /\ UNCHANGED <<call, log, mars_args, utc_today, daily_files,
                   regridded_files, targets, download_dates, requests,
                   downloaded_files>>
    /\ UNCHANGED utilsVars
    /\ UNCHANGED mergeVars

(***************************************************************************)
(* MergedIceNetDataSet                                                     *)
(***************************************************************************)
MaxConfigs == 3

GeneralAttrs == {"channels", "dtype", "n_forecast_days", "num_channels",
                 "output_batch_size", "shape"}

\* the dataset configurations on disk, by path
BaseConfig ==
    [identifier |-> "north", loader_config |-> "loader.north.json",
     loader_path |-> "network_datasets/north",
     north |-> TRUE, south |-> FALSE,
     counts |-> [train |-> 10, val |-> 2, test |-> 3],
     channels |-> <<"siconca_abs_1">>, dtype |-> "float32",
     n_forecast_days |-> 93, num_channels |-> 1, output_batch_size |-> 4,
     shape |-> <<432, 432>>]

ConfigFiles ==
    [a |-> BaseConfig,
     b |-> [BaseConfig EXCEPT !.identifier = "south",
                              !.loader_config = "loader.south.json",
                              !.loader_path = "network_datasets/south",
                              !.north = FALSE, !.south = TRUE,
                              !.counts = [train |-> 5, val |-> 1, test |-> 1]],
     c |-> [BaseConfig EXCEPT !.identifier = "north_short",
                              !.loader_path = "network_datasets/north_short",
                              !.counts = [train |-> 4]],
     d |-> [BaseConfig EXCEPT !.identifier = "south_holdout",
                              !.loader_path = "network_datasets/holdout",
                              !.north = FALSE, !.south = TRUE,
                              !.counts = [train |-> 1, holdout |-> 7]],
     e |-> [BaseConfig EXCEPT !.identifier = "south_f16",
                              !.loader_path = "network_datasets/south_f16",
                              !.north = FALSE, !.south = TRUE,
                              !.dtype = "float16",
                              !.counts = [train |-> 2, val |-> 2, test |-> 2]]]

\* paths are named by their stem: "a" stands for "a.json"; "m" is missing
PathStems == DOMAIN ConfigFiles \cup {"m"}

\* the characters of the path with the given stem
Chars(stem) == <<stem, ".", "j", "s", "o", "n">>

\* os.path.exists(path)
Exists(path) == path \in DOMAIN ConfigFiles

PathLists == UNION {[1 .. n -> PathStems] : n \in 0 .. MaxConfigs}

\* [configuration_paths] if type(configuration_paths) != list
\* else configuration_paths
AsList(arg) == IF arg.list THEN arg.value ELSE <<arg.value>>

\* what iterating over the constructor's argument yields: the paths of a
\* list, the characters of a string
Iterate(arg) == IF arg.list THEN arg.value ELSE Chars(arg.value)

EmptyConfig ==
    [keys |-> {"loader_paths", "loaders", "north", "south"},
     loader_paths |-> <<>>, loaders |-> <<>>,
     north |-> FALSE, south |-> FALSE,
     counts |-> <<>>, attrs |-> <<>>]

\* IceNetDataLoader(other["loader_config"], other["identifier"], ...)
IceNetDataLoader(other) ==
    [keys |-> {"loader"},
     loader_config |-> other.loader_config, identifier |-> other.identifier,
     north |-> other.north, south |-> other.south]

\* mutation: a later configuration's count replaces the count so far
MergeCountsReplace(counts, other) ==
    [d \in DOMAIN counts |->
        IF d \in DOMAIN other THEN other[d] ELSE counts[d]]

\* self._config["counts"][dataset] += count for the datasets of other
MergeCounts(counts, other) ==
    [d \in DOMAIN counts |->
        IF d \in DOMAIN other THEN counts[d] + other[d] ELSE counts[d]]

\* the result of _merge_configurations on cfg and other: the new _config
\* and the exception raised, if one is
MergeConfigurations(cfg, other) ==
    LET loader == IceNetDataLoader(other)
        first == "counts" \notin cfg.keys
        unknown == DOMAIN other.counts \ DOMAIN cfg.counts
        differing == {a \in GeneralAttrs \cap cfg.keys :
                         cfg.attrs[a] # other[a]}
        appended == [cfg EXCEPT !.loaders = Append(@, loader),
                                !.loader_paths = Append(@, other.loader_path)]
    IN  IF ~first /\ unknown # {}
        THEN [config |-> appended,
              error |-> [type |-> "KeyError", event |-> "counts",
                         args |-> <<>>]]
        ELSE IF differing # {}
        THEN [config |-> [appended EXCEPT
                             !.counts = MergeCounts(cfg.counts, other.counts)],
              error |-> [type |-> "AssertionError",
                         event |-> "is not the same across configurations",
                         args |-> <<>>]]
        ELSE [config |->
                [appended EXCEPT
                    !.keys = @ \cup {"counts"} \cup GeneralAttrs,
                    !.counts = IF first THEN other.counts
                               ELSE MergeCounts(cfg.counts, other.counts),
                    !.attrs = [a \in GeneralAttrs |-> other[a]],
                    !.north = IF loader.north THEN TRUE ELSE @,
                    !.south = IF loader.south THEN TRUE ELSE @],
              error |-> NoError]

\* __init__, lines 130-133, and the reset of _load_configurations
MergedInit ==
    /\ Callable
    /\ \E arg \in {[list |-> TRUE, value |-> l] : l \in PathLists}
                  \cup {[list |-> FALSE, value |-> p] : p \in PathStems} :
          /\ configuration_paths' = AsList(arg)
          /\ load_paths' = Iterate(arg)
    /\ call' = "MergedIceNetDataSet"
    /\ config' = EmptyConfig
    /\ path_idx' = 1
    /\ pc' = "load"
    /\ UNCHANGED <<log, error, returned>>
    /\ UNCHANGED utilsVars
    /\ UNCHANGED marsVars

\* one turn of the loop of _load_configurations
LoadConfiguration ==
    /\ pc = "load"
    /\ path_idx <= Len(load_paths)
    /\ LET path == load_paths[path_idx]
       IN  IF Exists(path)
           THEN LET m == MergeConfigurations(config, ConfigFiles[path])
                IN  /\ config' = m.config
                    /\ error' = m.error
                    /\ log' = Append(log, [level |-> "info",
                                           event |-> "Loading configuration",
                                           args |-> <<path>>])
                    /\ IF m.error = NoError
                       THEN pc' = "load" /\ path_idx' = path_idx + 1
                       ELSE pc' = "raise" /\ path_idx' = path_idx
           ELSE /\ error' = [type |-> "OSError", event |-> "not found",
                             args |-> <<path>>]
                /\ pc' = "raise"
                /\ UNCHANGED <<config, log, path_idx>>
    /\ UNCHANGED <<call, configuration_paths, load_paths, returned>>
    /\ UNCHANGED utilsVars
    /\ UNCHANGED marsVars

\* the rest of __init__, lines 135-146: it reads _config["dtype"]
MergedBuilt ==
    /\ pc = "load"
    /\ path_idx > Len(load_paths)
    /\ IF "dtype" \in config.keys
       THEN pc' = "built" /\ error' = NoError
       ELSE /\ pc' = "raise"
            /\ error' = [type |-> "KeyError", event |-> "dtype",
                         args |-> <<>>]
    /\ UNCHANGED <<call, log, mergeVars>>
    /\ UNCHANGED utilsVars
    /\ UNCHANGED marsVars

\* get_data_loader, lines 219-229
GetDataLoader ==
    /\ pc = "built"
    /\ call' = "get_data_loader"
    /\ IF Len(configuration_paths) # 1
       THEN /\ error' = [type |-> "AssertionError",
                         event |-> "Configuration mode is only for single loaderdatasets",
                         args |-> <<configuration_paths>>]
            /\ pc' = "raise"
            /\ UNCHANGED returned
       ELSE IF "loader" \in config.keys
       THEN /\ returned' = config.loader[1]
            /\ pc' = "return"
            /\ UNCHANGED error
       ELSE /\ error' = [type |-> "KeyError", event |-> "loader",
                         args |-> <<>>]
            /\ pc' = "raise"
            /\ UNCHANGED returned
    /\ UNCHANGED <<log, configuration_paths, load_paths, path_idx, config>>
    /\ UNCHANGED utilsVars
    /\ UNCHANGED marsVars

Next ==
    \/ MergedInit
    \/ LoadConfiguration
    \/ MergedBuilt
    \/ GetDataLoader
    \/ FilterDsByObs
    \/ GetObsDa
    \/ SingleDownload
    \/ PartialRequest
    \/ FullRequest
    \/ SaveDaily
    \/ GetSeasForecastDa
    \/ StripOverlappingTime
    \/ OpenMfdataset
    \/ ReturnSeasDa

Spec == Init /\ [][Next]_vars


(***************************************************************************)
(* Properties of filter_ds_by_obs                                          *)
(***************************************************************************)
Filtered == call = "filter_ds_by_obs" /\ leadtime # {}

\* d lies in the nominal forecast window
InNominal(d) ==
    /\ \E l \in leadtime : forecast_date + l <= d
    /\ \E l \in leadtime : d <= forecast_date + l

\* C1: every window handed to broadcast_forecast lies inside the nominal
\* window [forecast_date + min(leadtime), forecast_date + max(leadtime)].
C1_WindowWithinNominal ==
    (Filtered /\ pc = "return") =>
        \A i \in DOMAIN broadcast :
            /\ InNominal(broadcast[i][1])
            /\ InNominal(broadcast[i][2])

\* C2: with an empty observation series the call raises the 'no
\* observational data available' error, the error carries the nominal
\* bounds, nothing is logged and broadcast_forecast is not called.
C2_EmptyObsRaises ==
    (Filtered /\ obs_time = <<>>) =>
        /\ pc = "raise"
        /\ error.type = "RuntimeError"
        /\ error.event = "No observational data available"
        /\ \E lo \in leadtime, hi \in leadtime :
              /\ \A l \in leadtime : lo <= l /\ l <= hi
              /\ error.args = <<StrftimeD(forecast_date + lo),
                                StrftimeD(forecast_date + hi)>>
        /\ log = <<>>
        /\ broadcast = <<>>

C2_Witness ==
    /\ Filtered
    /\ obs_time = <<>>
    /\ pc = "raise"
    /\ \A l \in leadtime : l > 0
    /\ Cardinality(leadtime) >= 2

\* C3: with a non-empty observation series shorter than the lead time axis
\* exactly one warning is logged and the forecast is broadcast onto
\* (first observation date, last observation date).
C3_PartialNarrows ==
    (Filtered /\ obs_time # <<>> /\ Len(obs_time) < Cardinality(leadtime)) =>
        /\ pc = "return"
        /\ error = NoError
        /\ Len(log) = 1
        /\ log[1].level = "warning"
        /\ Len(broadcast) = 1
        /\ broadcast[1][1] = obs_time[1]
        /\ broadcast[1][2] = obs_time[Len(obs_time)]

C3_Witness ==
    /\ Filtered
    /\ pc = "return"
    /\ Len(obs_time) = 2
    /\ Cardinality(leadtime) = 3
    /\ obs_time[1] = forecast_date + Min(leadtime)
    /\ obs_time[2] < forecast_date + Max(leadtime)
    /\ broadcast = <<<<obs_time[1], obs_time[2]>>>>

\* C4: with at least as many observation steps as lead times the forecast
\* is broadcast onto the nominal window, nothing is logged and nothing is
\* raised.
C4_FullCoverageNominal ==
    (Filtered /\ Len(obs_time) >= Cardinality(leadtime)) =>
        /\ pc = "return"
        /\ error = NoError
        /\ log = <<>>
        /\ Len(broadcast) = 1
        /\ \A l \in leadtime :
              /\ broadcast[1][1] <= forecast_date + l
              /\ forecast_date + l <= broadcast[1][2]
        /\ broadcast[1][1] - forecast_date \in leadtime
        /\ broadcast[1][2] - forecast_date \in leadtime

C4_Witness ==
    /\ Filtered
    /\ pc = "return"
    /\ Len(obs_time) = Cardinality(leadtime)
    /\ Len(obs_time) >= 2
    /\ obs_time[1] = forecast_date + Min(leadtime)
    /\ obs_time[Len(obs_time)] = forecast_date + Max(leadtime)
    /\ broadcast = <<<<obs_time[1], obs_time[Len(obs_time)]>>>>


(***************************************************************************)
(* Properties of the historical corpus of get_seas_forecast_da             *)
(***************************************************************************)
Building == call = "get_seas_forecast_da" /\ bias_correct
Enumerated == Building /\ pc \in {"preprocess", "debias", "return"}
Assembled == Building /\ pc \in {"debias", "return"}

\* exactly eight decimal digits followed by ".nc"
EightDigitNc(f) ==
    /\ Len(f) = 11
    /\ \E n \in {DigitsValue(SubSeq(f, 1, 8))} : f = Digits(n, 8) \o DotNc

\* the sibling files the corpus is to be built from
Siblings == {f \in DOMAIN siconca : EightDigitNc(f)} \ {seas_file}

\* issuance dates of the siblings issued after date d
LaterIssuances(d) == {Strptime(f) : f \in {g \in Siblings : Strptime(g) > d}}

ScenarioD ==
    <<Digits(20220301, 8) \o DotNc, Digits(20220401, 8) \o DotNc,
      Digits(20220501, 8) \o DotNc>>

\* C5: a file that is not the latest issuance is clipped to the day before
\* the next later issuance, the latest issuance is left unclipped; issuances
\* 2022-03-01, 2022-04-01, 2022-05-01 end on 2022-03-31, 2022-04-30 and
\* unbounded.
C5_ClipToNextIssuance ==
    Building =>
        /\ \A i \in DOMAIN preprocessed :
              LET r == preprocessed[i]
                  later == LaterIssuances(Strptime(r.source))
              IN  ~r.none =>
                    IF later = {}
                    THEN ~r.stripped /\ Len(r.time) = siconca[r.source]
                    ELSE /\ r.stripped
                         /\ r.max_date = Min(later) - 1
                         /\ \A t \in Range(r.time) : t <= r.max_date
        /\ (Keys(seas_hist_files) = ScenarioD
            /\ Len(preprocessed) = 3
            /\ \A i \in 1 .. 3 : ~preprocessed[i].none) =>
              /\ preprocessed[1].max_date = ToOrdinal(2022, 3, 31)
              /\ preprocessed[2].max_date = ToOrdinal(2022, 4, 30)
              /\ ~preprocessed[3].stripped

C5_Witness ==
    /\ Assembled
    /\ Keys(seas_hist_files) = ScenarioD
    /\ \A i \in 1 .. 3 : siconca[ScenarioD[i]] = HistLen
    /\ Len(preprocessed[1].time) = 31
    /\ Len(preprocessed[2].time) = 30
    /\ Len(preprocessed[3].time) = HistLen

\* C6: the valid windows [issuance date, upper bound] of adjacent entries are
\* contiguous: the day after one window ends is the next entry's issuance.
C6_WindowsContiguous ==
    Building =>
        \A i \in DOMAIN preprocessed : \A j \in DOMAIN preprocessed :
            (j = i + 1 /\ ~preprocessed[i].none /\ ~preprocessed[j].none) =>
                /\ preprocessed[i].stripped
                /\ Strptime(preprocessed[i].source) <= preprocessed[i].max_date
                /\ preprocessed[i].max_date + 1
                       = Strptime(preprocessed[j].source)

C6_Witness ==
    /\ Assembled
    /\ Len(preprocessed) >= 3
    /\ \A i \in DOMAIN preprocessed : ~preprocessed[i].none

\* C7: the mapping of historical files is in strictly ascending order of
\* issuance date.
C7_SortedByIssuance ==
    \A i \in DOMAIN seas_hist_files : \A j \in DOMAIN seas_hist_files :
        i < j => seas_hist_files[i].date < seas_hist_files[j].date

C7_Witness ==
    /\ Enumerated
    /\ Len(seas_hist_files) >= 3
    /\ seas_hist_files[1].date < seas_hist_files[2].date
    /\ seas_hist_files[2].date < seas_hist_files[3].date

\* C8: every file is clipped from above only and no date is left in the
\* clipped series of two files, so the corpus has unique dates.
C8_CorpusDatesUnique ==
    Building =>
        /\ \A i \in DOMAIN preprocessed :
              LET r == preprocessed[i] IN
              ~r.none =>
                /\ r.time # <<>>
                /\ r.time = SubSeq(FileTime(r.source, siconca[r.source]),
                                   1, Len(r.time))
        /\ \A i \in DOMAIN preprocessed : \A j \in DOMAIN preprocessed :
              i # j =>
                Range(preprocessed[i].time) \cap Range(preprocessed[j].time)
                    = {}
        /\ Assembled =>
              /\ \A i \in DOMAIN hist_time : \A j \in DOMAIN hist_time :
                     i < j => hist_time[i] < hist_time[j]
              /\ Range(hist_time)
                     = UNION {Range(preprocessed[i].time) :
                                  i \in DOMAIN preprocessed}

C8_Witness ==
    /\ Assembled
    /\ Len(preprocessed) >= 2
    /\ siconca[preprocessed[1].source] = HistLen
    /\ Len(preprocessed[1].time) < HistLen
    /\ preprocessed[2].time[1] \in
           Range(FileTime(preprocessed[1].source, HistLen))

\* C9: the corpus is built from exactly the sibling files named by eight
\* digits and .nc, without the target forecast file.
C9_CorpusFiles ==
    /\ Enumerated => Range(Keys(seas_hist_files)) = Siblings
    /\ Assembled =>
          {preprocessed[i].source : i \in DOMAIN preprocessed} = Siblings

C9_Witness ==
    /\ Assembled
    /\ seas_file \in DOMAIN siconca
    /\ Digits(202204010, 9) \o DotNc \in DOMAIN siconca
    /\ Digits(2022, 4) \o DotNc \in DOMAIN siconca
    /\ Digits(20220401, 8) \o DotTxt \in DOMAIN siconca
    /\ Len(seas_hist_files) >= 2

\* C10: when the callback cannot match a file to the mapping the failure is
\* logged, the file is left out and the build continues to a corpus of the
\* remaining files.
C10_UnmatchedFileSkipped ==
    (Building /\ pc # "preprocess"
     /\ \E i \in DOMAIN preprocessed : preprocessed[i].none) =>
        /\ \E k \in DOMAIN log : log[k].level = "exception"
        /\ pc \in {"debias", "return"}
        /\ error = NoError
        /\ Range(hist_time)
               = UNION {Range(preprocessed[i].time) :
                            i \in DOMAIN preprocessed}


(***************************************************************************)
(* Properties of get_obs_da and of the bias correction                     *)
(***************************************************************************)
\* some date of the historical corpus is a date of the observations
HistObsOverlap ==
    \E i \in DOMAIN hist_time : \E k \in DOMAIN obs_runs :
        obs_runs[k][1] <= hist_time[i] /\ hist_time[i] <= obs_runs[k][2]

\* C11: with bias correction and a historical corpus that shares no date
\* with the observations, get_seas_forecast_da fails and returns no series.
C11_NoOverlapFails ==
    (Building /\ hist_time # <<>> /\ ~HistObsOverlap) =>
        /\ pc # "return"
        /\ result = NoSeries

ObsCalled == call = "get_obs_da"

\* C12: get_obs_da returns a zero-length series, and raises nothing, when
\* no yearly file is found for the requested range.
C12_NoFilesReturnsEmpty ==
    (ObsCalled /\ obs_dfs = <<>>) =>
        /\ pc = "return"
        /\ error = NoError
        /\ obs_runs = <<>>

\* the calendar years that have a day in the requested range
RequestedYears ==
    {yr \in Years : /\ obs_request[1] <= obs_request[2]
                    /\ ToOrdinal(yr, 1, 1) <= obs_request[2]
                    /\ obs_request[1] <= ToOrdinal(yr, 12, 31)}

ObsWarnings == {k \in DOMAIN log : log[k].level = "warning"}

\* the days get_obs_da returns
ObsDays == UNION {obs_runs[k][1] .. obs_runs[k][2] : k \in DOMAIN obs_runs}

\* C13: the files are those of the requested years that exist, in ascending
\* year order; one warning is logged if a year's file is missing and none
\* otherwise; the call goes on with the files found and returns their days
\* within [start_date, end_date].
C13_ObsFilesByYear ==
    ObsCalled =>
        /\ Range(obs_dfs) = RequestedYears \cap obs_source
        /\ \A i \in DOMAIN obs_dfs : \A j \in DOMAIN obs_dfs :
              i < j => obs_dfs[i] < obs_dfs[j]
        /\ Cardinality(ObsWarnings)
              = (IF RequestedYears \subseteq obs_source THEN 0 ELSE 1)
        /\ pc = "return"
        /\ error = NoError
        /\ ObsDays = {d \in obs_request[1] .. obs_request[2] :
                         FromOrdinal(d).year \in obs_source}

\* C14: the corrected series get_seas_forecast_da returns has the time axis
\* and the grid of the forecast file that was opened; only its values are
\* replaced.
C14_DebiasKeepsCoords ==
    (Building /\ pc = "return") =>
        /\ result.values = "debiased"
        /\ result.grid = GridShape
        /\ Len(result.time) = siconca[seas_file]
        /\ \A i \in DOMAIN result.time :
              result.time[i] = Strptime(seas_file) + i - 1

C14_Witness ==
    /\ Building
    /\ pc = "return"
    /\ Len(result.time) = HistLen
    /\ HistObsOverlap

\* the date get_seas_forecast_da was called with
IssuanceDate == Strptime(seas_file)

ObsRequested == Building /\ obs_request # <<NoDate, NoDate>>

\* the calendar day of date, years later (or earlier)
SameDay(date, years) ==
    LET c == FromOrdinal(date) IN ToOrdinal(c.year + years, c.month, c.day)

\* C15 as stated: the observation range runs from the calendar day of the
\* issuance date ten years earlier to the same day ten years later.
C15_TenCalendarYears ==
    ObsRequested =>
        LET c == FromOrdinal(IssuanceDate)
            first == FromOrdinal(obs_request[1])
            last == FromOrdinal(obs_request[2])
        IN  /\ first = [year |-> c.year - 10, month |-> c.month,
                        day |-> c.day]
            /\ last = [year |-> c.year + 10, month |-> c.month,
                       day |-> c.day]

\* C15 amended: the observation range is the issuance date minus and plus
\* 3650 days (10 x 365), which begins two or three days after the calendar
\* day ten years earlier and ends two or three days before the calendar day
\* ten years later.
C15_TenTimes365Days ==
    ObsRequested =>
        /\ IssuanceDate - obs_request[1] = 3650
        /\ obs_request[2] - IssuanceDate = 3650
        /\ obs_request[1] - SameDay(IssuanceDate, -10) \in {2, 3}
        /\ SameDay(IssuanceDate, 10) - obs_request[2] \in {2, 3}

C15_Witness ==
    /\ ObsRequested
    /\ IssuanceDate = ToOrdinal(2022, 4, 1)
    /\ obs_request = <<ToOrdinal(2012, 4, 3), ToOrdinal(2032, 3, 29)>>

(***************************************************************************)
(* Claims about HRESDownloader._single_download                            *)
(***************************************************************************)
Downloading == call = "_single_download"

\* some requested variable has neither a daily nor a regridded file for d
Wanted(d) ==
    LET keys == VarKeys(mars_args.var_names, mars_args.pressures)
    IN  \E k \in DOMAIN keys :
           /\ <<keys[k], d>> \notin daily_files
           /\ <<keys[k], d>> \notin regridded_files

WantedDates == {d \in Range(mars_args.req_dates) : Wanted(d)}

\* the call returned at line 141
EarlyReturn == Downloading /\ pc = "return" /\ downloaded_files = <<>>

Yesterday == utc_today - 1

\* the latest wanted date is yesterday and its partial target is not on disk
PartialDue ==
    /\ Downloading
    /\ WantedDates # {}
    /\ Max(WantedDates) = Yesterday
    /\ "partial" \notin targets

PartialOk ==
    \E i \in DOMAIN downloaded_files : downloaded_files[i].target = "partial"

FullRequests == {i \in DOMAIN requests : requests[i].target = "request"}

\* C16: when the latest date to download is yesterday (UTC) and the partial
\* target is not on disk, the partial request is executed before the full
\* one; after its success the date is in no full request, and no full
\* request is issued when no date remains; after its API failure the call
\* goes on and the date is in the full request.
C16_PartialBeforeFull ==
    (PartialDue /\ pc \in {"full", "save", "return", "raise"}) =>
        /\ requests # <<>>
        /\ requests[1] = [target |-> "partial",
                          date |-> <<StrftimeYmd(Yesterday)>>]
        /\ FullRequests \subseteq {2}
        /\ PartialOk =>
              /\ \A i \in FullRequests :
                    StrftimeYmd(Yesterday) \notin Range(requests[i].date)
              /\ WantedDates = {Yesterday} => FullRequests = {}
              /\ Yesterday \notin Range(download_dates)
        /\ ~PartialOk =>
              /\ pc = "full" => error = NoError
              /\ Yesterday \in Range(download_dates)
              /\ \A i \in FullRequests :
                    StrftimeYmd(Yesterday) \in Range(requests[i].date)
              /\ (pc # "full" /\ "request" \notin targets) =>
                    FullRequests = {2}

\* the partial request failed and the full request that followed asked for
\* yesterday together with an earlier day
C16_Witness ==
    /\ PartialDue
    /\ ~PartialOk
    /\ Len(requests) = 2
    /\ Len(requests[2].date) = 2
    /\ StrftimeYmd(Yesterday) \in Range(requests[2].date)

\* the partial request succeeded and the full request asked for the rest
C16_SuccessWitness ==
    /\ PartialDue
    /\ PartialOk
    /\ Len(requests) = 2
    /\ pc = "return"

\* C17: a date of the batch is in the download list exactly when some
\* requested variable has neither its daily nor its regridded file; with an
\* empty list the call returns with no request, no daily file written and
\* no file deleted; no date is in the list twice.
C17_DownloadList ==
    Downloading =>
        /\ (pc = "partial" \/ EarlyReturn) =>
              Range(download_dates) = WantedDates
        /\ Len(download_dates) = Cardinality(Range(download_dates))
        /\ WantedDates = {} =>
              /\ EarlyReturn
              /\ requests = <<>>
              /\ written = {}
              /\ deleted = {}

\* a batch that names a date twice, one of its dates wanted for one
\* pressure level only, the other wanted by none
C17_Witness ==
    /\ Downloading
    /\ pc = "partial"
    /\ Len(mars_args.req_dates) = 3
    /\ Cardinality(WantedDates) = 1
    /\ \E d \in WantedDates :
          \E v \in Range(VarKeys(mars_args.var_names, mars_args.pressures)) :
             <<v, d>> \in daily_files

\* every file is there: the call returns at once although targets are on
\* disk and delete is set
C17_EmptyWitness ==
    /\ EarlyReturn
    /\ mars_args.var_names # <<>>
    /\ mars_args.delete
    /\ targets # {}

(***************************************************************************)
(* Claims about MergedIceNetDataSet                                        *)
(***************************************************************************)
Merging == call \in {"MergedIceNetDataSet", "get_data_loader"}

\* the configurations merged so far, in merge order
Merged ==
    [i \in 1 .. (path_idx - 1) |-> ConfigFiles[load_paths[i]]]

\* a merge has completed and none has failed
MergeCompleted ==
    /\ Merging
    /\ path_idx > 1
    /\ pc \in {"load", "built"} \/ call = "get_data_loader"

RECURSIVE CountSum(_, _)
\* the sum of dataset d's counts over the configurations cfgs
CountSum(cfgs, d) ==
    IF cfgs = <<>> THEN 0
    ELSE (IF d \in DOMAIN cfgs[1].counts THEN cfgs[1].counts[d] ELSE 0)
         + CountSum(Tail(cfgs), d)

C18_AssertionWitness ==
    /\ call = "MergedIceNetDataSet"
    /\ pc = "raise"
    /\ error.type = "AssertionError"
    /\ path_idx > 1

GetDataLoaderDone ==
    call = "get_data_loader" /\ pc \in {"return", "raise"}

\* C19: get_data_loader on a dataset constructed from exactly one
\* configuration path returns the loader built for that configuration; on
\* a dataset constructed from more than one path it fails with the "only
\* for single loader datasets" assertion.
C19_GetDataLoader ==
    GetDataLoaderDone =>
        /\ Len(configuration_paths) = 1 =>
              /\ pc = "return"
              /\ returned = config.loaders[1]
        /\ Len(configuration_paths) > 1 =>
              /\ pc = "raise"
              /\ error.type = "AssertionError"

\* get_data_loader fails by the assertion when the dataset has several paths
C19_SeveralPathsAsserted ==
    (GetDataLoaderDone /\ Len(configuration_paths) > 1) =>
        (pc = "raise" /\ error.type = "AssertionError")

\* get_data_loader called on a dataset of one path
C19_SinglePathCalled ==
    GetDataLoaderDone /\ Len(configuration_paths) = 1

====
